---- MODULE Spec2Model ----
(***************************************************************************)
(* The cipher engine of utils/ciphers: Caesar, Rail Fence, Columnar        *)
(* Transposition and Playfair.  Strings are sequences of UTF-16 code       *)
(* units; a JavaScript number is a record that is NaN, an infinity or a    *)
(* finite value counted in halves, so that 2.5 is representable.  Every    *)
(* exported function is an operator returning either a value or the error  *)
(* thrown; the state machine applies one exported function to the current  *)
(* input and may feed a result back as the next input, with the direction  *)
(* reversed, as the front end does.                                        *)
(***************************************************************************)
EXTENDS Integers, Sequences, FiniteSets, TLC

VARIABLES fn, mode, text, key, num, result, log

vars == <<fn, mode, text, key, num, result, log>>

(***************************************************************************)
(* Bounds of the model.                                                    *)
(***************************************************************************)
MaxCalls == 2
MaxShift == 27
MaxCaesarLen == 2
MaxRailLen == 4
MaxRails == 4
MaxTranspositionLen == 5
MaxTranspositionKeyLen == 3
MaxPlayfairLen == 3
MaxPlayfairKeyLen == 1
MaxMatrixKeyLen == 2

(***************************************************************************)
(* JavaScript values.                                                      *)
(***************************************************************************)
Fin(h) == [k |-> "fin", h |-> h]
Int2(n) == Fin(2 * n)
NaN == [k |-> "nan", h |-> 0]
PosInf == [k |-> "inf", h |-> 1]
NegInf == [k |-> "inf", h |-> -1]

isNaN(n) == n.k = "nan"
IsInteger(n) == n.k = "fin" /\ n.h % 2 = 0

\* a % b of JavaScript on integers, b > 0: the sign follows the dividend
JsRem(a, b) == IF a >= 0 THEN a % b ELSE -((-a) % b)

Ok(v) == [ok |-> TRUE, val |-> v, err |-> "none"]
Err(e) == [ok |-> FALSE, val |-> <<>>, err |-> e]
NoResult == [ok |-> FALSE, val |-> <<>>, err |-> "pending"]

Modes == {"encrypt", "decrypt"}
Flip(m) == IF m = "encrypt" THEN "decrypt" ELSE "encrypt"

RECURSIVE Concat(_)
Concat(ss) == IF ss = <<>> THEN <<>> ELSE Head(ss) \o Concat(Tail(ss))

IsUpper(c) == c >= 65 /\ c <= 90
IsLower(c) == c >= 97 /\ c <= 122
IsAsciiLetter(c) == IsUpper(c) \/ IsLower(c)

(***************************************************************************)
(* Caesar cipher.                                                          *)
(***************************************************************************)
\* the effective shift s, in halves; NaN when shift is an infinity
CaesarShiftDecryptSameAsEncrypt(shift, m) ==
  IF shift.k = "inf" THEN NaN
  ELSE Fin(JsRem(JsRem(shift.h, 52) + 52, 52))

CaesarShift(shift, m) ==
  IF shift.k = "inf" THEN NaN
  ELSE IF m = "encrypt"
       THEN Fin(JsRem(JsRem(shift.h, 52) + 52, 52))
       ELSE Fin(JsRem(52 - JsRem(JsRem(shift.h, 52) + 52, 52), 52))

\* String.fromCharCode(((code - base + s) % 26) + base): ToUint16 maps NaN
\* to 0 and drops the fraction
CaesarCharUpperBase(code, s) ==
  IF IsAsciiLetter(code)
  THEN IF isNaN(s) THEN 0
       ELSE (JsRem(2 * (code - 65) + s.h, 52) + 2 * 65) \div 2
  ELSE code

CaesarChar(code, s) ==
  IF IsAsciiLetter(code)
  THEN LET base == IF code >= 65 /\ code <= 90 THEN 65 ELSE 97
       IN IF isNaN(s) THEN 0
          ELSE (JsRem(2 * (code - base) + s.h, 52) + 2 * base) \div 2
  ELSE code

caesarCipher(t, shift, m) ==
  IF isNaN(shift) THEN Err("InvalidKey")
  ELSE LET s == CaesarShift(shift, m)
       IN Ok([i \in 1..Len(t) |-> CaesarChar(t[i], s)])

(***************************************************************************)
(* Rail Fence cipher.                                                      *)
(***************************************************************************)
\* rails < 2 of JavaScript
LessThanTwo(n) == (n.k = "fin" /\ n.h < 4) \/ (n.k = "inf" /\ n.h < 0)

IsHighSurrogate(c) == c >= 55296 /\ c <= 56319
IsLowSurrogate(c) == c >= 56320 /\ c <= 57343

\* the strings a for-of loop over t visits: one per code point, a surrogate
\* pair being one string of two code units
RECURSIVE CodePoints(_)
CodePoints(t) ==
  IF t = <<>> THEN <<>>
  ELSE IF Len(t) >= 2 /\ IsHighSurrogate(t[1]) /\ IsLowSurrogate(t[2])
       THEN <<SubSeq(t, 1, 2)>> \o CodePoints(SubSeq(t, 3, Len(t)))
       ELSE <<SubSeq(t, 1, 1)>> \o CodePoints(Tail(t))

\* Array.from({ length: rails }, ...): ToLength drops the fraction; a length
\* above 2^32 - 1 is a RangeError
ArrayLength(n) == IF n.k = "inf" THEN -1 ELSE n.h \div 2

\* rail += direction; if (rail === 0 || rail === rails - 1) direction *= -1
ZigZagNeverTurnsAtTop(rail, direction, rails) ==
  LET r == rail + direction
  IN <<r, IF rails.k = "fin" /\ 2 * r = rails.h - 2
          THEN -direction ELSE direction>>

ZigZagStep(rail, direction, rails) ==
  LET r == rail + direction
  IN <<r, IF r = 0 \/ (rails.k = "fin" /\ 2 * r = rails.h - 2)
          THEN -direction ELSE direction>>

\* for (const char of text) { fence[rail].push(char); ... }: fence[rail] is
\* undefined outside the array and push then throws a TypeError
RECURSIVE RailWrite(_, _, _, _, _)
RailWrite(chars, fence, rail, direction, rails) ==
  IF chars = <<>> THEN Ok(fence)
  ELSE IF rail < 0 \/ rail >= Len(fence) THEN Err("TypeError")
  ELSE LET z == ZigZagStep(rail, direction, rails)
       IN RailWrite(Tail(chars),
                    [fence EXCEPT ![rail + 1] = Append(@, Head(chars))],
                    z[1], z[2], rails)

railFenceEncrypt(t, rails) ==
  IF isNaN(rails) \/ LessThanTwo(rails) THEN Err("InvalidKey")
  ELSE IF ArrayLength(rails) < 0 THEN Err("RangeError")
  ELSE LET w == RailWrite(CodePoints(t),
                          [r \in 1..ArrayLength(rails) |-> <<>>], 0, 1, rails)
       IN IF w.ok THEN Ok(Concat(Concat(w.val))) ELSE w

\* the cells of the decryption grid: null, the marker "*" or a character
Null == <<-1>>
Marker == <<42>>
\* result += cell: null is appended as the text "null"
CellText(cell) == IF cell = Null THEN <<110, 117, 108, 108>> ELSE cell

\* pass 1: mark the zig-zag cell of every column
RECURSIVE RailMark(_, _, _, _, _, _)
RailMark(i, len, fence, rail, direction, rails) ==
  IF i >= len THEN Ok(fence)
  ELSE IF rail < 0 \/ rail >= Len(fence) THEN Err("TypeError")
  ELSE LET z == ZigZagStep(rail, direction, rails)
       IN RailMark(i + 1, len, [fence EXCEPT ![rail + 1][i + 1] = Marker],
                   z[1], z[2], rails)

\* pass 2: give the marked cells, row by row, the ciphertext characters; k
\* counts the cells visited, st is the grid and the index
RECURSIVE RailFillStopsEarly(_, _, _)
RailFillStopsEarly(k, t, st) ==
  LET len == Len(t)
      r == k \div len
      c == k % len
  IN IF k >= Len(st.fence) * len THEN st
     ELSE IF st.fence[r + 1][c + 1] = Marker /\ st.index < len - 1
          THEN RailFillStopsEarly(k + 1, t,
                 [fence |-> [st.fence EXCEPT ![r + 1][c + 1] = <<t[st.index + 1]>>],
                  index |-> st.index + 1])
          ELSE RailFillStopsEarly(k + 1, t, st)

RECURSIVE RailFill(_, _, _)
RailFill(k, t, st) ==
  LET len == Len(t)
      r == k \div len
      c == k % len
  IN IF k >= Len(st.fence) * len THEN st
     ELSE IF st.fence[r + 1][c + 1] = Marker /\ st.index < len
          THEN RailFill(k + 1, t,
                 [fence |-> [st.fence EXCEPT ![r + 1][c + 1] = <<t[st.index + 1]>>],
                  index |-> st.index + 1])
          ELSE RailFill(k + 1, t, st)

\* pass 3: read the grid along the zig-zag
RECURSIVE RailRead(_, _, _, _, _, _)
RailRead(i, len, fence, rail, direction, rails) ==
  IF i >= len THEN Ok(<<>>)
  ELSE IF rail < 0 \/ rail >= Len(fence) THEN Err("TypeError")
  ELSE LET z == ZigZagStep(rail, direction, rails)
           rest == RailRead(i + 1, len, fence, z[1], z[2], rails)
       IN IF rest.ok THEN Ok(CellText(fence[rail + 1][i + 1]) \o rest.val) ELSE rest

RailGrid(t, rails) ==
  RailMark(0, Len(t),
           [r \in 1..ArrayLength(rails) |-> [c \in 1..Len(t) |-> Null]],
           0, 1, rails)

railFenceDecrypt(t, rails) ==
  IF isNaN(rails) \/ LessThanTwo(rails) THEN Err("InvalidKey")
  ELSE IF t = <<>> THEN Ok(<<>>)
  ELSE IF ArrayLength(rails) < 0 THEN Err("RangeError")
  ELSE LET m == RailGrid(t, rails)
       IN IF ~m.ok THEN m
          ELSE RailRead(0, Len(t),
                        RailFill(0, t, [fence |-> m.val, index |-> 0]).fence,
                        0, 1, rails)

(***************************************************************************)
(* Key and text sanitization.                                              *)
(***************************************************************************)
\* toUpperCase of one code unit: a-z, and the sharp s, whose upper case is SS
UpperUnit(c) ==
  IF IsLower(c) THEN <<c - 32>> ELSE IF c = 223 THEN <<83, 83>> ELSE <<c>>

toUpperCase(t) == Concat([i \in 1..Len(t) |-> UpperUnit(t[i])])

\* replace(/J/g, "I")
ReplaceJKeepsJ(t) == t

ReplaceJ(t) == [i \in 1..Len(t) |-> IF t[i] = 74 THEN 73 ELSE t[i]]

\* replace(/[^A-Z]/g, "")
StripNonUpper(t) == SelectSeq(t, IsUpper)

Range(f) == {f[i] : i \in DOMAIN f}

(***************************************************************************)
(* Columnar Transposition cipher.                                          *)
(***************************************************************************)
SanitizeKey(k) == StripNonUpper(toUpperCase(k))

\* Math.ceil(len / numCols)
NumRows(len, numCols) == (len + numCols - 1) \div numCols

\* a.char.localeCompare(b.char) || a.index - b.index is negative
KeyLessDescending(a, b) == a.char > b.char \/ (a.char = b.char /\ a.index < b.index)

KeyLess(a, b) == a.char < b.char \/ (a.char = b.char /\ a.index < b.index)

\* sanitizedKey.split("").map((char, index) => ({ char, index })), sorted
KeyArr(sk) ==
  LET arr == {[char |-> sk[i], index |-> i - 1] : i \in 1..Len(sk)}
  IN [p \in 1..Len(sk) |->
        CHOOSE e \in arr : Cardinality({x \in arr : KeyLess(x, e)}) = p - 1]

\* the grid after the row-by-row fill: cell (row, col) holds text[row *
\* numCols + col] or stays ""
EncryptGrid(t, numCols) ==
  [row \in 1..NumRows(Len(t), numCols) |->
     [col \in 1..numCols |->
        LET i == (row - 1) * numCols + (col - 1)
        IN IF i < Len(t) THEN <<t[i + 1]>> ELSE <<>>]]

\* for (row ...) if (grid[row][colIndex] !== "") result += grid[row][colIndex]
ReadColumnPadded(grid, colIndex) ==
  Concat([row \in 1..Len(grid) |->
            IF grid[row][colIndex + 1] # <<>> THEN grid[row][colIndex + 1] ELSE <<88>>])

ReadColumn(grid, colIndex) ==
  Concat([row \in 1..Len(grid) |->
            IF grid[row][colIndex + 1] # <<>> THEN grid[row][colIndex + 1] ELSE <<>>])

columnarTranspositionEncrypt(t, k) ==
  LET sanitizedKey == SanitizeKey(k)
      keyArr == KeyArr(sanitizedKey)
      grid == EncryptGrid(t, Len(sanitizedKey))
  IN IF sanitizedKey = <<>> THEN Err("InvalidKey")
     ELSE Ok(Concat([p \in 1..Len(keyArr) |-> ReadColumn(grid, keyArr[p].index)]))

\* fullCols === 0 || colIndex < fullCols ? numRows : numRows - 1
ColLenOffByOne(colIndex, fullCols, numRows) ==
  IF fullCols = 0 \/ colIndex <= fullCols THEN numRows ELSE numRows - 1

ColLen(colIndex, fullCols, numRows) ==
  IF fullCols = 0 \/ colIndex < fullCols THEN numRows ELSE numRows - 1

\* for (row < colLen) if (charIndex < len) grid[row][colIndex] = cipherText[charIndex++]
RECURSIVE FillColumn(_, _, _, _, _)
FillColumn(row, colLen, colIndex, t, st) ==
  IF row >= colLen THEN st
  ELSE IF st.charIndex < Len(t)
       THEN FillColumn(row + 1, colLen, colIndex, t,
              [grid |-> [st.grid EXCEPT ![row + 1][colIndex + 1] = <<t[st.charIndex + 1]>>],
               charIndex |-> st.charIndex + 1])
       ELSE FillColumn(row + 1, colLen, colIndex, t, st)

\* for (const k of keyArr) ...: p counts the key letters done
RECURSIVE FillColumns(_, _, _, _, _, _)
FillColumns(p, keyArr, fullCols, numRows, t, st) ==
  IF p > Len(keyArr) THEN st
  ELSE FillColumns(p + 1, keyArr, fullCols, numRows, t,
         FillColumn(0, ColLen(keyArr[p].index, fullCols, numRows),
                    keyArr[p].index, t, st))

columnarTranspositionDecrypt(t, k) ==
  LET sanitizedKey == SanitizeKey(k)
      numCols == Len(sanitizedKey)
      len == Len(t)
      numRows == NumRows(len, numCols)
      fullCols == len % numCols
      empty == [row \in 1..numRows |-> [col \in 1..numCols |-> <<>>]]
      st == FillColumns(1, KeyArr(sanitizedKey), fullCols, numRows, t,
                        [grid |-> empty, charIndex |-> 0])
  IN IF sanitizedKey = <<>> THEN Err("InvalidKey")
     ELSE Ok(Concat([row \in 1..numRows |-> Concat(st.grid[row])]))

(***************************************************************************)
(* Playfair cipher.                                                        *)
(***************************************************************************)
\* for (i ...) { prepared += res[i]; if (prepared.length % 2 !== 0)
\*   if (i + 1 < res.length && res[i] === res[i + 1]) prepared += "X" }
RECURSIVE PrepareLoop(_, _, _)
PrepareLoop(i, res, prepared) ==
  IF i >= Len(res) THEN prepared
  ELSE LET p == Append(prepared, res[i + 1])
       IN IF Len(p) % 2 # 0 /\ i + 1 < Len(res) /\ res[i + 1] = res[i + 2]
          THEN PrepareLoop(i + 1, res, Append(p, 88))
          ELSE PrepareLoop(i + 1, res, p)

preparePlayfairText(t) ==
  LET res == StripNonUpper(ReplaceJ(toUpperCase(t)))
      prepared == PrepareLoop(0, res, <<>>)
  IN IF res = <<>> THEN Err("EmptyText")
     ELSE IF Len(prepared) % 2 # 0 THEN Ok(Append(prepared, 88))
     ELSE Ok(prepared)

\* "ABCDEFGHIKLMNOPQRSTUVWXYZ"
alphabet == <<65, 66, 67, 68, 69, 70, 71, 72, 73, 75, 76, 77, 78, 79, 80,
              81, 82, 83, 84, 85, 86, 87, 88, 89, 90>>

\* Array.from(new Set(chars)): the first occurrences, in order
RECURSIVE UniqueChars(_, _)
UniqueChars(chars, seen) ==
  IF chars = <<>> THEN <<>>
  ELSE IF Head(chars) \in seen THEN UniqueChars(Tail(chars), seen)
  ELSE <<Head(chars)>> \o UniqueChars(Tail(chars), seen \cup {Head(chars)})

\* arr.slice(from, to), 0 <= from <= to
Slice(arr, from, to) ==
  SubSeq(arr, from + 1, IF to < Len(arr) THEN to ELSE Len(arr))

\* key.toUpperCase() + alphabet, J kept in the key
MatrixCharsKeepJ(k) == StripNonUpper(toUpperCase(k) \o alphabet)

MatrixChars(k) == StripNonUpper(ReplaceJ(toUpperCase(k)) \o alphabet)

createPlayfairMatrix(k) ==
  LET sanitizedKey == MatrixChars(k)
      uniqueChars == UniqueChars(sanitizedKey, {})
  IN IF Len(sanitizedKey) = 0 THEN Err("InvalidKey")
     ELSE Ok([i \in 1..5 |-> Slice(uniqueChars, (i - 1) * 5, (i - 1) * 5 + 5)])

\* the position [r, c] of char in the matrix, or the error of line 270
findPos(matrix, char) ==
  LET hits == {rc \in (0..4) \X (0..4) :
                 /\ rc[2] < Len(matrix[rc[1] + 1])
                 /\ matrix[rc[1] + 1][rc[2] + 1] = char}
  IN IF hits = {} THEN Err("CharacterNotFound")
     ELSE Ok(CHOOSE rc \in hits :
               \A o \in hits : rc[1] < o[1] \/ (rc[1] = o[1] /\ rc[2] <= o[2]))

\* matrix[r][c] appended to a string: "undefined" outside the row
Cell(matrix, r, c) ==
  IF c < Len(matrix[r + 1]) THEN <<matrix[r + 1][c + 1]>>
  ELSE <<117, 110, 100, 101, 102, 105, 110, 101, 100>>

\* prepared[i], -1 standing for undefined
CharAt(t, i) == IF i < Len(t) THEN t[i + 1] ELSE -1

\* the substitution of one digraph, lines 296-304
SubstituteSwapRows(matrix, p1, p2, m) ==
  LET r1 == p1[1]  c1 == p1[2]  r2 == p2[1]  c2 == p2[2]
      shift == IF m = "encrypt" THEN 1 ELSE 4
  IN IF r1 = r2
     THEN Cell(matrix, r1, (c1 + shift) % 5) \o Cell(matrix, r2, (c2 + shift) % 5)
     ELSE IF c1 = c2
     THEN Cell(matrix, (r1 + shift) % 5, c1) \o Cell(matrix, (r2 + shift) % 5, c2)
     ELSE Cell(matrix, r2, c1) \o Cell(matrix, r1, c2)

SubstituteAlwaysShiftsByOne(matrix, p1, p2, m) ==
  LET r1 == p1[1]  c1 == p1[2]  r2 == p2[1]  c2 == p2[2]
      shift == 1
  IN IF r1 = r2
     THEN Cell(matrix, r1, (c1 + shift) % 5) \o Cell(matrix, r2, (c2 + shift) % 5)
     ELSE IF c1 = c2
     THEN Cell(matrix, (r1 + shift) % 5, c1) \o Cell(matrix, (r2 + shift) % 5, c2)
     ELSE Cell(matrix, r1, c2) \o Cell(matrix, r2, c1)

Substitute(matrix, p1, p2, m) ==
  LET r1 == p1[1]  c1 == p1[2]  r2 == p2[1]  c2 == p2[2]
      shift == IF m = "encrypt" THEN 1 ELSE 4
  IN IF r1 = r2
     THEN Cell(matrix, r1, (c1 + shift) % 5) \o Cell(matrix, r2, (c2 + shift) % 5)
     ELSE IF c1 = c2
     THEN Cell(matrix, (r1 + shift) % 5, c1) \o Cell(matrix, (r2 + shift) % 5, c2)
     ELSE Cell(matrix, r1, c2) \o Cell(matrix, r2, c1)

\* for (let i = 0; i < prepared.length; i += 2) ...
RECURSIVE Digraphs(_, _, _, _)
Digraphs(i, prepared, matrix, m) ==
  IF i >= Len(prepared) THEN Ok(<<>>)
  ELSE LET p1 == findPos(matrix, CharAt(prepared, i))
           p2 == findPos(matrix, CharAt(prepared, i + 1))
       IN IF ~p1.ok THEN p1
          ELSE IF ~p2.ok THEN p2
          ELSE LET rest == Digraphs(i + 2, prepared, matrix, m)
               IN IF rest.ok
                  THEN Ok(Substitute(matrix, p1.val, p2.val, m) \o rest.val)
                  ELSE rest

playfairCipher(t, k, m) ==
  LET matrix == createPlayfairMatrix(k)
      prepared == IF m = "encrypt" THEN preparePlayfairText(t)
                  ELSE Ok(StripNonUpper(ReplaceJ(toUpperCase(t))))
  IN IF ~matrix.ok THEN matrix
     ELSE IF ~prepared.ok THEN prepared
     ELSE IF m = "decrypt" /\ prepared.val = <<>> THEN Err("EmptyText")
     ELSE IF m = "decrypt" /\ Len(prepared.val) % 2 # 0 THEN Err("InvalidKey")
     ELSE Digraphs(0, prepared.val, matrix.val, m)

(***************************************************************************)
(* Inputs.                                                                 *)
(***************************************************************************)
RECURSIVE StringsUpTo(_, _)
StringsUpTo(A, n) ==
  IF n = 0 THEN {<<>>}
  ELSE LET S == StringsUpTo(A, n - 1)
       IN S \cup {Append(s, c) : s \in {x \in S : Len(x) = n - 1}, c \in A}

\* 'A' 'Z' 'a' 'z' and the non-letter '@'
CaesarChars == {65, 90, 97, 122, 64}
CaesarTexts == StringsUpTo(CaesarChars, MaxCaesarLen)
Shifts ==
  {Int2(n) : n \in (-MaxShift)..MaxShift}
    \cup {Fin(5), Fin(-5), Fin(53), NaN, PosInf, NegInf}

\* 'a', '*' (the marker of the decryption grid) and the two halves of U+1F600
RailChars == {97, 42, 55357, 56832}
RailTexts == StringsUpTo(RailChars, MaxRailLen)
RailCounts ==
  {Int2(n) : n \in -1..MaxRails} \cup {Fin(5), Fin(7), NaN, PosInf, NegInf}

\* 'B', 'a' and the non-letter '-'
TranspositionKeyChars == {66, 97, 45}
TranspositionKeys == StringsUpTo(TranspositionKeyChars, MaxTranspositionKeyLen)
TranspositionTexts == StringsUpTo({120, 121}, MaxTranspositionLen)
ZEBRA == <<90, 69, 66, 82, 65>>
SECRET == <<83, 69, 67, 82, 69, 84>>
ATTACKATDAWN == <<65, 84, 84, 65, 67, 75, 65, 84, 68, 65, 87, 78>>
HI == <<72, 73>>

\* 'X' (the filler), 'a', 'j', the non-letter '1' and the sharp s
PlayfairChars == {88, 97, 106, 49, 223}
PlayfairTexts == StringsUpTo(PlayfairChars, MaxPlayfairLen)
\* 'x', 'J', the sharp s and the non-letter '!'
PlayfairKeyChars == {120, 74, 223, 33}
PlayfairKeys == StringsUpTo(PlayfairKeyChars, MaxPlayfairKeyLen)
MatrixKeys == StringsUpTo(PlayfairKeyChars, MaxMatrixKeyLen)
PLAYFAIREXAMPLE == <<80, 76, 65, 89, 70, 65, 73, 82, 69, 88, 65, 77, 80, 76, 69>>
HIDETHEGOLD ==
  <<72, 73, 68, 69, 84, 72, 69, 71, 79, 76, 68, 73, 78, 84, 72, 69, 84, 82,
    69, 69, 83, 84, 85, 77, 80>>

(***************************************************************************)
(* The state machine.                                                      *)
(***************************************************************************)
\* one exported function and its arguments; no call made yet
Start(f, t, k, n) ==
  /\ fn = f
  /\ text = t
  /\ key = k
  /\ num = n
  /\ mode \in Modes
  /\ result = NoResult
  /\ log = <<>>

Init ==
  \/ \E t \in CaesarTexts, s \in Shifts : Start("caesarCipher", t, <<>>, s)
  \/ \E t \in RailTexts, r \in RailCounts : Start("railFence", t, <<>>, r)
  \/ \E t \in TranspositionTexts, k \in TranspositionKeys :
       Start("columnarTransposition", t, k, NaN)
  \/ Start("columnarTransposition", ATTACKATDAWN, ZEBRA, NaN)
  \/ Start("columnarTransposition", HI, SECRET, NaN)
  \/ \E t \in PlayfairTexts, k \in PlayfairKeys : Start("playfairCipher", t, k, NaN)
  \/ Start("playfairCipher", HIDETHEGOLD, PLAYFAIREXAMPLE, NaN)
  \/ \E t \in PlayfairTexts \cup {HIDETHEGOLD} :
       Start("preparePlayfairText", t, <<>>, NaN)
  \/ \E k \in MatrixKeys \cup {PLAYFAIREXAMPLE} :
       Start("createPlayfairMatrix", <<>>, k, NaN)

CanCall(f) == fn = f /\ result = NoResult /\ Len(log) < MaxCalls

Return(r) ==
  /\ result' = r
  /\ log' = Append(log, [mode |-> mode, text |-> text, res |-> r])
  /\ UNCHANGED <<fn, mode, text, key, num>>

CaesarCipher ==
  /\ CanCall("caesarCipher")
  /\ Return(caesarCipher(text, num, mode))

RailFenceEncrypt ==
  /\ CanCall("railFence")
  /\ mode = "encrypt"
  /\ Return(railFenceEncrypt(text, num))

RailFenceDecrypt ==
  /\ CanCall("railFence")
  /\ mode = "decrypt"
  /\ Return(railFenceDecrypt(text, num))

ColumnarTranspositionEncrypt ==
  /\ CanCall("columnarTransposition")
  /\ mode = "encrypt"
  /\ Return(columnarTranspositionEncrypt(text, key))

ColumnarTranspositionDecrypt ==
  /\ CanCall("columnarTransposition")
  /\ mode = "decrypt"
  /\ Return(columnarTranspositionDecrypt(text, key))

PlayfairCipher ==
  /\ CanCall("playfairCipher")
  /\ Return(playfairCipher(text, key, mode))

PreparePlayfairText ==
  /\ CanCall("preparePlayfairText")
  /\ Return(preparePlayfairText(text))

CreatePlayfairMatrix ==
  /\ CanCall("createPlayfairMatrix")
  /\ Return(createPlayfairMatrix(key))

\* the result becomes the next input and the direction is reversed
UseResult ==
  /\ result.ok
  /\ fn \in {"caesarCipher", "railFence", "columnarTransposition", "playfairCipher"}
  /\ text' = result.val
  /\ mode' = Flip(mode)
  /\ result' = NoResult
  /\ UNCHANGED <<fn, key, num, log>>

Next ==
  \/ CaesarCipher
  \/ RailFenceEncrypt
  \/ RailFenceDecrypt
  \/ ColumnarTranspositionEncrypt
  \/ ColumnarTranspositionDecrypt
  \/ PlayfairCipher
  \/ PreparePlayfairText
  \/ CreatePlayfairMatrix
  \/ UseResult

Spec == Init /\ [][Next]_vars

(***************************************************************************)
(* Properties.  log[i] is the i-th call: its direction, its input text and *)
(* its outcome; log[i + 1].text is log[i].res.val and the directions       *)
(* alternate.                                                              *)
(***************************************************************************)
Calls == 1..Len(log)
HasLatinLetter(s) == \E i \in 1..Len(s) : IsAsciiLetter(s[i])
OnlyLatinLetters(s) == \A i \in 1..Len(s) : IsAsciiLetter(s[i])
ValidRails(n) == IsInteger(n) /\ n.h >= 4
Count(s, c) == Cardinality({i \in 1..Len(s) : s[i] = c})

\* encrypting log[i].text succeeded and, when a decryption followed, gave it back
RoundTrip(i) ==
  /\ log[i].res.ok
  /\ i < Len(log) =>
       /\ log[i + 1].mode = "decrypt"
       /\ log[i + 1].text = log[i].res.val
       /\ log[i + 1].res = Ok(log[i].text)

\* C1: with a key that has a Latin letter, decrypting the columnar
\* transposition of any text under the same key returns the text exactly.
C1_TranspositionRoundTrip ==
  (fn = "columnarTransposition" /\ HasLatinLetter(key)) =>
    \A i \in Calls : log[i].mode = "encrypt" => RoundTrip(i)

\* key "BBa" (a repeated letter), text "xyyx" (not a multiple of the key length)
C1_Witness ==
  /\ fn = "columnarTransposition"
  /\ key = <<66, 66, 97>>
  /\ Len(log) = 2
  /\ log[1].mode = "encrypt"
  /\ log[1].text = <<120, 121, 121, 120>>
  /\ log[1].res.val = <<121, 120, 120, 121>>
  /\ log[2].res = Ok(<<120, 121, 121, 120>>)

\* C2: with an integer rail count >= 2, decrypting the rail fence encryption
\* of any non-empty text returns the text.
C2_RailFenceRoundTrip ==
  (fn = "railFence" /\ ValidRails(num)) =>
    \A i \in Calls :
      (log[i].mode = "encrypt" /\ log[i].text # <<>>) => RoundTrip(i)

\* t is an output of preparePlayfairText
IsPrepared(t) == \E u \in PlayfairTexts : preparePlayfairText(u) = Ok(t)

\* C3: with an alphabetic key, Playfair decryption of the Playfair encryption
\* of an encrypt-prepared text returns that text.
C3_PlayfairPreparedRoundTrip ==
  (fn = "playfairCipher" /\ HasLatinLetter(key)) =>
    \A i \in Calls :
      (log[i].mode = "encrypt" /\ IsPrepared(log[i].text)) => RoundTrip(i)

\* C4: with an integer shift, Caesar decryption of the Caesar encryption of a
\* text of ASCII letters returns the text.
C4_CaesarRoundTrip ==
  (fn = "caesarCipher" /\ IsInteger(num)) =>
    \A i \in Calls :
      (log[i].mode = "encrypt" /\ OnlyLatinLetters(log[i].text)) => RoundTrip(i)

\* shift 27, text "Zz": encrypted to "Aa" and decrypted back
C4_Witness ==
  /\ fn = "caesarCipher"
  /\ num = Int2(27)
  /\ Len(log) = 2
  /\ log[1].mode = "encrypt"
  /\ log[1].text = <<90, 122>>
  /\ log[1].res = Ok(<<65, 97>>)
  /\ log[2].res = Ok(<<90, 122>>)

\* the letters of the key: upper-cased, J folded to I, everything else dropped
KeyLetters(k) == StripNonUpper(ReplaceJ(toUpperCase(k)))
FirstIndex(s, c) == CHOOSE i \in 1..Len(s) : s[i] = c /\ \A j \in 1..(i - 1) : s[j] # c
PlainGrid ==
  <<<<65, 66, 67, 68, 69>>, <<70, 71, 72, 73, 75>>, <<76, 77, 78, 79, 80>>,
    <<81, 82, 83, 84, 85>>, <<86, 87, 88, 89, 90>>>>

\* C5: createPlayfairMatrix succeeds for every key and returns 5 rows of 5
\* cells holding each of the 25 letters once: the key's letters in the order
\* of their first occurrence, then the other letters ascending; a key without
\* letters gives the plain alphabet grid.
C5_MatrixIsKeyedAlphabet ==
  (fn = "createPlayfairMatrix" /\ Len(log) >= 1) =>
    LET m == log[1].res.val
        flat == Concat(m)
        letters == KeyLetters(key)
    IN /\ log[1].res.ok
       /\ Len(m) = 5
       /\ \A r \in 1..5 : Len(m[r]) = 5
       /\ Range(flat) = Range(alphabet)
       /\ \A i, j \in 1..Len(flat) : i < j =>
            /\ flat[i] # flat[j]
            /\ (flat[i] \in Range(letters) /\ flat[j] \in Range(letters)) =>
                 FirstIndex(letters, flat[i]) < FirstIndex(letters, flat[j])
            /\ flat[i] \notin Range(letters) =>
                 (flat[j] \notin Range(letters) /\ flat[i] < flat[j])
       /\ Range(letters) \subseteq Range(flat)
       /\ letters = <<>> => m = PlainGrid

\* key "ßJ": the first row is S I A B C
C5_Witness ==
  /\ fn = "createPlayfairMatrix"
  /\ key = <<223, 74>>
  /\ Len(log) = 1
  /\ log[1].res.ok
  /\ log[1].res.val[1] = <<83, 73, 65, 66, 67>>

HIDETHEGOLDPrepared ==
  <<72, 73, 68, 69, 84, 72, 69, 71, 79, 76, 68, 73, 78, 84, 72, 69, 84, 82,
    69, 88, 69, 83, 84, 85, 77, 80>>
BMODZBXDNABEK ==
  <<66, 77, 79, 68, 90, 66, 88, 68, 78, 65, 66, 69, 75, 85, 68, 77, 85, 73,
    88, 77, 77, 79, 85, 86, 73, 70>>

\* C6: "HIDETHEGOLDINTHETREESTUMP" is prepared as HI DE TH EG OL DI NT HE TR
\* EX ES TU MP and encrypted under "PLAYFAIREXAMPLE" to
\* "BMODZBXDNABEKUDMUIXMMOUVIF".
C6_PlayfairReferenceVector ==
  /\ (fn = "preparePlayfairText" /\ Len(log) >= 1 /\ log[1].text = HIDETHEGOLD) =>
       log[1].res = Ok(HIDETHEGOLDPrepared)
  /\ (/\ fn = "playfairCipher"
      /\ key = PLAYFAIREXAMPLE
      /\ Len(log) >= 1
      /\ log[1].mode = "encrypt"
      /\ log[1].text = HIDETHEGOLD) =>
       log[1].res = Ok(BMODZBXDNABEK)

C6_Witness ==
  /\ fn = "playfairCipher"
  /\ key = PLAYFAIREXAMPLE
  /\ Len(log) = 1
  /\ log[1].mode = "encrypt"
  /\ log[1].text = HIDETHEGOLD
  /\ log[1].res.ok
  /\ Len(log[1].res.val) = 26

\* column col of the grid of width n that holds t row by row
GridColumn(t, n, col) ==
  LET idx == {i \in 1..Len(t) : (i - 1) % n = col}
  IN [j \in 1..Cardinality(idx) |-> t[col + 1 + (j - 1) * n]]
\* the grid columns of t taken in the given order
ColumnsInOrder(t, order) ==
  Concat([p \in 1..Len(order) |-> GridColumn(t, Len(order), order[p])])

EncryptedAttackUnderZebra ==
  /\ fn = "columnarTransposition"
  /\ key = ZEBRA
  /\ Len(log) >= 1
  /\ log[1].mode = "encrypt"
  /\ log[1].text = ATTACKATDAWN

\* C7, as stated: under the key "ZEBRA" the columns are read at the original
\* positions 1,3,0,4,2 and the encryption of "ATTACKATDAWN" is the
\* concatenation of the grid columns in that order.
C7_ZebraOrderAsStated ==
  EncryptedAttackUnderZebra =>
    log[1].res = Ok(ColumnsInOrder(ATTACKATDAWN, <<1, 3, 0, 4, 2>>))

\* C7, amended: under the key "ZEBRA" the key letters in reading order are
\* A,B,E,R,Z, the columns at the original positions 4,2,1,3,0, and the
\* encryption of "ATTACKATDAWN" is the concatenation of the grid columns in
\* that order, "CATTTANADAKW".
C7_ZebraOrder ==
  EncryptedAttackUnderZebra =>
    /\ log[1].res = Ok(ColumnsInOrder(ATTACKATDAWN, <<4, 2, 1, 3, 0>>))
    /\ log[1].res.val = <<67, 65, 84, 84, 84, 65, 78, 65, 68, 65, 75, 87>>
    /\ \A p \in 1..5 : ZEBRA[<<4, 2, 1, 3, 0>>[p] + 1] = <<65, 66, 69, 82, 90>>[p]

C7_Witness == EncryptedAttackUnderZebra /\ log[1].res.ok /\ Len(log[1].res.val) = 12

\* C8: the columnar transposition of a text under a valid key has the
\* length of the text and is a permutation of its characters; "HI" under
\* "SECRET" gives a result of length 2.
C8_EncryptIsPermutation ==
  (fn = "columnarTransposition" /\ HasLatinLetter(key)) =>
    \A i \in Calls : log[i].mode = "encrypt" =>
      /\ log[i].res.ok
      /\ Len(log[i].res.val) = Len(log[i].text)
      /\ \A c \in Range(log[i].text) \cup Range(log[i].res.val) :
           Count(log[i].res.val, c) = Count(log[i].text, c)

\* "HI" under "SECRET": the key is longer than the text
C8_Witness ==
  /\ fn = "columnarTransposition"
  /\ key = SECRET
  /\ Len(log) >= 1
  /\ log[1].mode = "encrypt"
  /\ log[1].text = HI
  /\ log[1].res = Ok(<<73, 72>>)

\* C9: caesarCipher fails with InvalidKey for every shift that is not an
\* integer, in both directions and for every text.
C9_CaesarRejectsNonInteger ==
  (fn = "caesarCipher" /\ ~IsInteger(num)) =>
    \A i \in Calls : log[i].res = Err("InvalidKey")

\* C10: railFenceEncrypt and railFenceDecrypt fail with InvalidKey whenever
\* rails is not an integer >= 2, for every text; decrypting the empty
\* ciphertext returns the empty string only under an integer rails >= 2.
C10_RailFenceRejectsInvalidRails ==
  fn = "railFence" =>
    \A i \in Calls :
      /\ ~ValidRails(num) => log[i].res = Err("InvalidKey")
      /\ (log[i].mode = "decrypt" /\ log[i].text = <<>> /\ log[i].res = Ok(<<>>))
           => ValidRails(num)

\* the text playfairCipher substitutes in call c: prepared when encrypting,
\* only sanitized when decrypting
SubstitutedText(c) ==
  IF c.mode = "encrypt" THEN preparePlayfairText(c.text)
  ELSE Ok(StripNonUpper(ReplaceJ(toUpperCase(c.text))))

\* the call just made, if any: every call is the last one in the state it ends in
LastCall == IF result = NoResult THEN {} ELSE {Len(log)}

InMatrix(matrix, char) ==
  \E r \in 1..Len(matrix) : \E c \in 1..Len(matrix[r]) : matrix[r][c] = char

\* C11: playfairCipher never fails with CharacterNotFound: whenever the
\* substitution runs, the text has an even length and each of its characters,
\* the second one of the last digraph included, is in the matrix of the key.
C11_CharacterAlwaysFound ==
  fn = "playfairCipher" =>
    \A i \in LastCall :
      /\ log[i].res.err # "CharacterNotFound"
      /\ log[i].res.ok =>
           LET p == SubstitutedText(log[i]).val
               matrix == createPlayfairMatrix(key).val
           IN /\ Len(p) % 2 = 0
              /\ Len(log[i].res.val) = Len(p)
              /\ \A j \in 0..(Len(p) - 1) : InMatrix(matrix, CharAt(p, j))

\* decrypting "jX" under the key "x": J is looked up as I
C11_Witness ==
  /\ fn = "playfairCipher"
  /\ key = <<120>>
  /\ Len(log) >= 1
  /\ log[1].mode = "decrypt"
  /\ log[1].text = <<106, 88>>
  /\ log[1].res.ok
  /\ Len(log[1].res.val) = 2

\* C12: with an integer shift, in both directions, caesarCipher returns a
\* string of the length of the text in which every non-letter is unchanged at
\* its position, every upper-case letter has become an upper-case letter and
\* every lower-case letter a lower-case letter.
C12_CaesarKeepsShape ==
  (fn = "caesarCipher" /\ IsInteger(num)) =>
    \A i \in Calls :
      /\ log[i].res.ok
      /\ Len(log[i].res.val) = Len(log[i].text)
      /\ \A j \in 1..Len(log[i].text) :
           LET a == log[i].text[j]
               b == log[i].res.val[j]
           IN /\ ~IsAsciiLetter(a) => b = a
              /\ IsUpper(a) => IsUpper(b)
              /\ IsLower(a) => IsLower(b)

\* "@z" shifted by 1: '@' stays, 'z' wraps to 'a'
C12_Witness ==
  /\ fn = "caesarCipher"
  /\ num = Int2(1)
  /\ Len(log) >= 1
  /\ log[1].mode = "encrypt"
  /\ log[1].text = <<64, 122>>
  /\ log[1].res = Ok(<<64, 97>>)

\* the zig-zag row of position i under n rails
ZigZagRow(i, n) ==
  LET p == i % (2 * (n - 1))
  IN IF p <= n - 1 THEN p ELSE 2 * (n - 1) - p

\* the characters of chars whose zig-zag row is row, in increasing position
RowOf(chars, n, row) ==
  LET OnRow(i) == ZigZagRow(i - 1, n) = row
      at == SelectSeq([i \in 1..Len(chars) |-> i], OnRow)
  IN Concat([j \in 1..Len(at) |-> chars[at[j]]])

\* C13: with an integer rails >= 2, railFenceEncrypt returns the rows 0 ..
\* rails - 1 one after the other, each row holding the characters whose
\* zig-zag row it is, in increasing position; a text of one character is
\* returned unchanged.  A character is what the loop over the text visits, a
\* code point.
C13_RailFenceEncryptIsRowsOfZigZag ==
  (fn = "railFence" /\ ValidRails(num)) =>
    \A i \in Calls : log[i].mode = "encrypt" =>
      LET chars == CodePoints(log[i].text)
          n == num.h \div 2
      IN /\ log[i].res = Ok(Concat([row \in 1..n |-> RowOf(chars, n, row - 1)]))
         /\ Len(chars) = 1 => log[i].res = Ok(log[i].text)

\* "a*a*" on 3 rails: rows "a", "**", "a"
C13_Witness ==
  /\ fn = "railFence"
  /\ num = Int2(3)
  /\ Len(log) >= 1
  /\ log[1].mode = "encrypt"
  /\ log[1].text = <<97, 42, 97, 42>>
  /\ log[1].res = Ok(<<97, 42, 42, 97>>)

\* the cells of grid, row by row, that hold the marker
MarkedCells(grid) ==
  {rc \in (1..Len(grid)) \X (1..Len(grid[1])) : grid[rc[1]][rc[2]] = Marker}
\* the marked cells that come before rc, row by row
MarkedBefore(grid, rc) ==
  {o \in MarkedCells(grid) : o[1] < rc[1] \/ (o[1] = rc[1] /\ o[2] < rc[2])}

\* C14: in railFenceDecrypt of a non-empty ciphertext under an integer rails
\* >= 2, the marking pass marks len cells, one in each column and on the
\* zig-zag; the fill pass gives every marked cell a character, so its guard
\* index < len never fails at a marked cell and index ends as len; every cell
\* the last pass reads holds the ciphertext character of its rank, never null.
C14_RailFenceDecryptFillsEveryMark ==
  (fn = "railFence" /\ ValidRails(num)) =>
    \A i \in Calls : (log[i].mode = "decrypt" /\ log[i].text # <<>>) =>
      LET t == log[i].text
          len == Len(t)
          n == num.h \div 2
          marked == RailGrid(t, num)
          st == RailFill(0, t, [fence |-> marked.val, index |-> 0])
      IN /\ marked.ok
         /\ Len(marked.val) = n
         /\ Cardinality(MarkedCells(marked.val)) = len
         /\ \A c \in 1..len :
              /\ marked.val[ZigZagRow(c - 1, n) + 1][c] = Marker
              /\ \A r \in 1..n :
                   r # ZigZagRow(c - 1, n) + 1 => marked.val[r][c] = Null
         /\ st.index = len
         /\ \A c \in 1..len :
              LET rc == <<ZigZagRow(c - 1, n) + 1, c>>
              IN st.fence[rc[1]][rc[2]] =
                   <<t[Cardinality(MarkedBefore(marked.val, rc)) + 1]>>
         /\ log[i].res.ok
         /\ log[i].res.val =
              [c \in 1..len |-> st.fence[ZigZagRow(c - 1, n) + 1][c][1]]

\* "aa*" on 2 rails: row 0 gets "aa", row 1 gets "*", read back as "a*a"
C14_Witness ==
  /\ fn = "railFence"
  /\ num = Int2(2)
  /\ Len(log) >= 1
  /\ log[1].mode = "decrypt"
  /\ log[1].text = <<97, 97, 42>>
  /\ log[1].res = Ok(<<97, 42, 97>>)

\* p is s with letters 'X' inserted and nothing else changed
RECURSIVE IsWithFillers(_, _)
IsWithFillers(p, s) ==
  IF p = <<>> THEN s = <<>>
  ELSE \/ s # <<>> /\ Head(s) = Head(p) /\ IsWithFillers(Tail(p), Tail(s))
       \/ Head(p) = 88 /\ IsWithFillers(Tail(p), s)

\* C15: for a text with a Latin letter, under every key, decrypting the
\* Playfair encryption gives preparePlayfairText of the text: its letters
\* upper-cased with J folded to I, the inserted 'X' still there, nothing else
\* changed.
C15_PlayfairRoundTripIsPreparedText ==
  fn = "playfairCipher" =>
    \A j \in LastCall : \A i \in {j - 1, j} \cap Calls :
      (log[i].mode = "encrypt" /\ HasLatinLetter(log[i].text)) =>
        /\ log[i].res.ok
        /\ i < j =>
             /\ log[j].mode = "decrypt"
             /\ log[j].text = log[i].res.val
             /\ log[j].res = preparePlayfairText(log[i].text)
             /\ log[j].res.ok
             /\ IsWithFillers(log[j].res.val, KeyLetters(log[i].text))

\* "aaj" under the key "x": encrypted, then decrypted to "AXAI"
C15_Witness ==
  /\ fn = "playfairCipher"
  /\ key = <<120>>
  /\ Len(log) = 2
  /\ log[1].mode = "encrypt"
  /\ log[1].text = <<97, 97, 106>>
  /\ log[2].res = Ok(<<65, 88, 65, 73>>)

\* C16: for a text with a Latin letter, the output of preparePlayfairText
\* has an even length and no digraph of two identical letters.
C16_PreparedDigraphsDiffer ==
  (fn = "preparePlayfairText" /\ HasLatinLetter(text)) =>
    \A i \in Calls :
      /\ log[i].res.ok
      /\ Len(log[i].res.val) % 2 = 0
      /\ \A j \in 1..Len(log[i].res.val) :
           j % 2 = 1 => log[i].res.val[j] # log[i].res.val[j + 1]

LatinLetters(s) == Cardinality({j \in 1..Len(s) : IsAsciiLetter(s[j])})

\* C17: playfairCipher fails, in both directions and under every key, when
\* the text has no Latin letter; for a text with a Latin letter encryption
\* never fails and decryption fails exactly when the number of its letters is
\* odd.
C17_PlayfairFailsExactlyOnBadText ==
  fn = "playfairCipher" =>
    \A i \in Calls :
      LET t == log[i].text
      IN /\ ~HasLatinLetter(t) => ~log[i].res.ok
         /\ (HasLatinLetter(t) /\ log[i].mode = "encrypt") => log[i].res.ok
         /\ (HasLatinLetter(t) /\ log[i].mode = "decrypt") =>
              (~log[i].res.ok <=> LatinLetters(t) % 2 = 1)

====
